---- MODULE Spec2Model ----
(***************************************************************************)
(* mcpvil: the bridge between the MCP tool handlers (service domain, tokio  *)
(* tasks) and the compositor's calloop event loop (render domain).          *)
(*                                                                          *)
(* src/src/main.rs  : McpCommand, MCPvilServer::launch_app / screenshot,    *)
(*                    the command-channel handler, main's run and drops.    *)
(* src/src/winit.rs : the WinitEvent handler (Redraw, CloseRequested) and   *)
(*                    take_screenshot.                                      *)
(*                                                                          *)
(* Every handler of the event loop runs to completion on the main thread,   *)
(* so each is one action.  A tool handler is two actions: the part up to    *)
(* its await (oneshot::channel + command_tx.send), and the resumption of    *)
(* the await.                                                               *)
(***************************************************************************)
EXTENDS Integers, Sequences, FiniteSets, TLC

\* Number of tool calls the MCP client issues over the run.
MaxReq == 2

\* Requests are numbered in the order of their command_tx.send.
Req == 1..MaxReq

\* LaunchAppRequest.command / ScreenshotRequest.filename of each request.  No
\* handler compares these values or branches on them, so every request gets
\* an argument of its own: a result that reaches the wrong request shows.
ArgNames == <<"a", "b", "c", "d", "e", "f">>

Arg(r) == ArgNames[r]

\* Where take_screenshot can stop: its four `?` and its Ok.
CaptureOutcomes == {"ok", "copy_failed", "map_failed", "bad_buffer", "save_failed"}

VARIABLES
    nextReq,            \* the next tool call's number
    pc,                 \* per request: the tool handler's position
    kind,               \* per request: "LaunchApp" | "Screenshot" | "none"
    param,              \* per request: command / filename
    ret,                \* per request: what the tool handler returned
    queue,              \* the calloop channel: McpCommand messages in flight
    rx_chan,            \* command_rx (the channel source) still exists
    tx,                 \* per request: state of its oneshot::Sender
    slot,               \* per request: the value held by its oneshot channel
    slotLog,            \* per request: who called response_tx.send, in order
    handled,            \* response_tx of the messages the handler took, in order
    spawned,            \* outcomes of cmd.spawn(), in order
    pending_screenshot, \* Smallvil::pending_screenshot: <<>> or <<filename, response_tx>>
    main_pc,            \* main(): "run" | "returned" | "panicked" | "rt_dropped" | "data_dropped" | "exited"
    stop,               \* loop_signal.stop() was called
    frame,              \* how far the last Redraw got, and which request it captured for
    redraw_requested,   \* backend.window().request_redraw() is outstanding
    server,             \* the MCP service task still runs and holds its command_tx
    closed,             \* channel::Event::Closed was delivered
    shot                \* one run of take_screenshot, step by step

vars == <<nextReq, pc, kind, param, ret, queue, rx_chan, tx, slot, slotLog,
          handled, spawned, pending_screenshot, main_pc, stop, frame,
          redraw_requested, server, closed, shot>>

\* Everything but the run of take_screenshot.
bridgeVars == <<nextReq, pc, kind, param, ret, queue, rx_chan, tx, slot, slotLog,
                handled, spawned, pending_screenshot, main_pc, stop, frame,
                redraw_requested, server, closed>>

\* A Result<_, String> travelling through a oneshot channel.  id is the pid of
\* Ok(child.id()) (or the number of the failed spawn attempt, which stands for
\* that attempt's io::Error); arg is the filename inside the success text.
Result(ok, id, text, arg) == [ok |-> ok, id |-> id, text |-> text, arg |-> arg]

\* A oneshot channel holding no value.
NoValue == Result(FALSE, 0, "NoValue", "")

\* A tool handler that has not returned.
NoReturn == [how |-> "none", text |-> "", arg |-> "", id |-> 0]

\* Option::None of pending_screenshot.
None == <<>>

\* take_screenshot is not running.
NoShot == [stage |-> "none"]

\* The bridge after main's construction, before event_loop.run.
BridgeInit ==
    /\ nextReq = 1
    /\ pc = [r \in Req |-> "idle"]
    /\ kind = [r \in Req |-> "none"]
    /\ param = [r \in Req |-> ""]
    /\ ret = [r \in Req |-> NoReturn]
    /\ queue = <<>>
    /\ rx_chan = TRUE
    /\ tx = [r \in Req |-> "none"]
    /\ slot = [r \in Req |-> NoValue]
    /\ slotLog = [r \in Req |-> <<>>]
    /\ handled = <<>>
    /\ spawned = <<>>
    /\ pending_screenshot = None
    /\ main_pc = "run"
    /\ stop = FALSE
    /\ frame = [stage |-> "none", captured |-> 0]
    /\ redraw_requested = FALSE
    /\ server = TRUE
    /\ closed = FALSE

Init == BridgeInit /\ shot = NoShot

(***************************************************************************)
(* Service domain: the tool handlers (tokio tasks).                        *)
(***************************************************************************)

\* The tokio runtime `rt` exists: main has not dropped it yet.
RuntimeAlive == main_pc \in {"run", "returned", "panicked"}

\* An McpCommand with its response_tx (named by the request that made it).
Msg(type, arg, r) == [type |-> type, arg |-> arg, response_tx |-> r]

\* calloop channel::Sender::send: the message goes to the back of the queue.
SendCommand(q, msg) == Append(q, msg)

\* McpError::internal_error(text)
InternalError(text) == [how |-> "internal_error", text |-> text, arg |-> "", id |-> 0]

\* launch_app's final match: both arms are CallToolResult::success.
LaunchReturn(command, result) ==
    IF result.ok
    THEN [how |-> "success", text |-> "Launched", arg |-> command, id |-> result.id]
    ELSE [how |-> "success", text |-> "Failed to launch", arg |-> command, id |-> result.id]

\* screenshot's final match.
ScreenshotReturn(result) ==
    IF result.ok
    THEN [how |-> "success", text |-> result.text, arg |-> result.arg, id |-> 0]
    ELSE [how |-> "success", text |-> "Failed to take screenshot", arg |-> result.text, id |-> 0]

\* A tool handler up to its await: oneshot::channel(), then command_tx.send(..)
\* with map_err(..)?.  A failed send returns the error at once; the message,
\* and the response_tx inside it, come back in the SendError and are dropped.
Call(type) ==
    /\ RuntimeAlive
    /\ server
    /\ nextReq <= MaxReq
    /\ LET r == nextReq IN
       /\ nextReq' = r + 1
       /\ kind' = [kind EXCEPT ![r] = type]
       /\ param' = [param EXCEPT ![r] = Arg(r)]
       /\ IF rx_chan
          THEN /\ queue' = SendCommand(queue, Msg(type, Arg(r), r))
               /\ tx' = [tx EXCEPT ![r] = "live"]
               /\ pc' = [pc EXCEPT ![r] = "awaiting"]
               /\ ret' = ret
          ELSE /\ queue' = queue
               /\ tx' = [tx EXCEPT ![r] = "dropped"]
               /\ pc' = [pc EXCEPT ![r] = "returned"]
               /\ ret' = [ret EXCEPT ![r] = InternalError("Failed to send command")]
    /\ UNCHANGED <<rx_chan, slot, slotLog, handled, spawned, pending_screenshot,
                   main_pc, stop, frame, redraw_requested,
                   server, closed, shot>>

\* MCPvilServer::launch_app up to its await.
CallLaunchApp == Call("LaunchApp")

\* MCPvilServer::screenshot up to its await.
CallScreenshot == Call("Screenshot")

\* What response_rx.await yields once the channel is settled: the value, or
\* RecvError when the sender was dropped without sending.
AwaitReturn(r) ==
    IF slot[r] # NoValue
    THEN IF kind[r] = "LaunchApp" THEN LaunchReturn(param[r], slot[r])
                                  ELSE ScreenshotReturn(slot[r])
    ELSE InternalError("Event loop dropped response channel")

\* The handler's task is woken and resumes after response_rx.await.
CallerWake(r) ==
    /\ RuntimeAlive
    /\ pc[r] = "awaiting"
    /\ tx[r] \in {"used", "dropped"}
    /\ pc' = [pc EXCEPT ![r] = "returned"]
    /\ ret' = [ret EXCEPT ![r] = AwaitReturn(r)]
    /\ UNCHANGED <<nextReq, kind, param, queue, rx_chan, tx, slot, slotLog, handled,
                   spawned, pending_screenshot, main_pc, stop, frame, redraw_requested,
                   server, closed, shot>>

\* The future of a handler is dropped at its await by the task that owns it
\* (the MCP service loop, which is not part of these sources): the caller
\* stops waiting, and response_rx is dropped with the future.  Once the
\* reply is in the slot the handler's next poll returns it, and a drop then
\* changes nothing the loop or another request observes: the caller is let
\* go only while its slot is still unwritten.
CallerDrop(r) ==
    /\ RuntimeAlive
    /\ pc[r] = "awaiting"
    /\ slotLog[r] = <<>>
    /\ pc' = [pc EXCEPT ![r] = "cancelled"]
    /\ UNCHANGED <<nextReq, kind, param, ret, queue, rx_chan, tx, slot, slotLog, handled,
                   spawned, pending_screenshot, main_pc, stop, frame, redraw_requested,
                   server, closed, shot>>

\* The task spawned on rt ends: `server.await` failed, or
\* running_service.waiting() returned because the transport closed.  No
\* further tool call arrives; the service is dropped once no handler, which
\* borrows it, is left.
ServerExit ==
    /\ RuntimeAlive
    /\ server
    /\ server' = FALSE
    /\ UNCHANGED <<nextReq, pc, kind, param, ret, queue, rx_chan, tx, slot, slotLog,
                   handled, spawned, pending_screenshot, main_pc, stop, frame,
                   redraw_requested, closed, shot>>

\* Every clone of command_tx is gone: the service task has ended and no
\* handler future, which borrows the service, exists.
ProducersGone == ~server /\ \A r \in Req : pc[r] # "awaiting"

(***************************************************************************)
(* Render domain: the handlers the calloop event loop runs on the main     *)
(* thread while main is inside event_loop.run.                             *)
(***************************************************************************)

\* event_loop.run is dispatching.  After loop_signal.stop() the sources that
\* are already ready are still dispatched; run returns after that.
LoopRunning == main_pc = "run"

\* The request whose response_tx an Option<(String, Sender)> holds.
Held(p) == IF p = None THEN {} ELSE {p[2]}

\* Mutant: the newest message is handed over first.
RecvLast(q) == q[Len(q)]

\* The next channel::Event::Msg the source hands to the handler: the channel
\* is an mpsc queue, read from the front.
Recv(q) == Head(q)

\* Mutant: the message stays in the channel after it was handed over.
RemoveMsgKeep(q, msg) == q

\* The queue once msg has been received.
RemoveMsg(q, msg) == SelectSeq(q, LAMBDA m : m # msg)

\* cmd.spawn() mapped to Result<u32, String>: Ok(child.id()) or Err(e.to_string()).
SpawnResult(ok, n) ==
    IF ok THEN Result(TRUE, n, "pid", "") ELSE Result(FALSE, n, "spawn error", "")

\* Mutant: the LaunchApp arm replies on the oldest request's sender.
LaunchReplySlotFirst(msg) == 1

\* The sender the LaunchApp arm replies on: the one destructured from msg.
LaunchReplySlot(msg) == msg.response_tx

\* Mutant: only an Ok result is sent.
OneshotValueOkOnly(r, v) == IF pc[r] = "awaiting" /\ v.ok THEN v ELSE slot[r]

\* oneshot::Sender::send(self, v): consumes the sender; the value reaches the
\* channel unless the receiver is gone (then send returns Err, which both
\* callers discard with `let _ =`).
\* Mutant: the value is stored although the receiver is gone.
OneshotValueAlways(r, v) == v

OneshotValue(r, v) == IF pc[r] = "awaiting" THEN v ELSE slot[r]

\* McpCommand::LaunchApp arm: spawn, then reply on response_tx.
\* Mutant: the LaunchApp arm takes the pending screenshot away.
LaunchArmPendingTake(p) == None

\* What the LaunchApp arm does to pending_screenshot: it does not name it.
LaunchArmPending(p) == p

DispatchLaunchApp ==
    /\ LoopRunning
    /\ queue # <<>>
    /\ LET msg == Recv(queue) IN
       /\ msg.type = "LaunchApp"
       /\ \E ok \in BOOLEAN :
            LET n == Len(spawned) + 1
                r == LaunchReplySlot(msg) IN
            /\ spawned' = Append(spawned, [command |-> msg.arg, ok |-> ok])
            /\ slot' = [slot EXCEPT ![r] = OneshotValue(r, SpawnResult(ok, n))]
            /\ slotLog' = [slotLog EXCEPT ![r] = Append(@, "dispatch")]
            /\ tx' = [tx EXCEPT ![r] = "used"]
       /\ queue' = RemoveMsg(queue, msg)
       /\ handled' = Append(handled, msg.response_tx)
    /\ pending_screenshot' = LaunchArmPending(pending_screenshot)
    /\ UNCHANGED <<nextReq, pc, kind, param, ret, rx_chan,
                   main_pc, stop, frame, redraw_requested,
                   server, closed, shot>>

\* Mutant: a capture already pending is kept, the new command is dropped.
StorePendingKeepFirst(old, msg) == IF old # None THEN old ELSE <<msg.arg, msg.response_tx>>

\* `pending_screenshot = Some((filename, response_tx))`: the new value.
StorePending(old, msg) == <<msg.arg, msg.response_tx>>

\* McpCommand::Screenshot arm: the assignment drops the value it overwrites,
\* and with it that request's sender.
DispatchScreenshot ==
    /\ LoopRunning
    /\ queue # <<>>
    /\ LET msg == Recv(queue) IN
       /\ msg.type = "Screenshot"
       /\ pending_screenshot' = StorePending(pending_screenshot, msg)
       /\ tx' = [r \in Req |->
                   IF r \in (Held(pending_screenshot) \cup {msg.response_tx})
                            \ Held(pending_screenshot')
                   THEN "dropped" ELSE tx[r]]
       /\ queue' = RemoveMsg(queue, msg)
       /\ handled' = Append(handled, msg.response_tx)
    /\ UNCHANGED <<nextReq, pc, kind, param, ret, rx_chan, slot, slotLog, spawned,
                   main_pc, stop, frame, redraw_requested,
                   server, closed, shot>>

\* What the Closed arm does to the stop signal: nothing, it only logs.
ClosedArmStop(s) == s

\* Mutant: the Closed arm clears the pending screenshot.
ClosedArmPendingClear(p) == None

\* What the Closed arm does to pending_screenshot: nothing.
ClosedArmPending(p) == p

\* channel::Event::Closed: the channel reports, once, after the queued
\* messages, that every sender is gone; the arm logs and returns.
ChannelClosed ==
    /\ LoopRunning
    /\ ~closed
    /\ ProducersGone
    /\ queue = <<>>
    /\ closed' = TRUE
    /\ stop' = ClosedArmStop(stop)
    /\ pending_screenshot' = ClosedArmPending(pending_screenshot)
    /\ tx' = [r \in Req |->
                IF r \in Held(pending_screenshot) \ Held(pending_screenshot')
                THEN "dropped" ELSE tx[r]]
    /\ UNCHANGED <<nextReq, pc, kind, param, ret, queue, rx_chan, slot, slotLog, handled,
                   spawned, main_pc, frame, redraw_requested, server, shot>>

\* take_screenshot's result for each place it can stop.
CaptureResult(outcome, filename) ==
    CASE outcome = "copy_failed" -> Result(FALSE, 0, "Failed to copy framebuffer", "")
      [] outcome = "map_failed"  -> Result(FALSE, 0, "Failed to map texture", "")
      [] outcome = "bad_buffer"  -> Result(FALSE, 0, "Failed to create image from pixel data", "")
      [] outcome = "save_failed" -> Result(FALSE, 0, "Failed to save screenshot", "")
      [] OTHER                   -> Result(TRUE, 0, "Screenshot saved to", filename)

\* Mutant: the pending request is read but left in place.
TakePendingKeep(p) == p

\* What Option::take leaves behind.
TakePending(p) == None

\* Mutant: the Redraw arm never runs take_screenshot.
HasPendingNever(p) == FALSE

\* Whether the Redraw arm runs take_screenshot: `if let Some(..) = ...take()`.
HasPending(p) == p # None

\* "// Handle pending screenshot": take the pending request, run
\* take_screenshot, send its result.
CaptureStep(outcome) ==
    IF HasPending(pending_screenshot)
    THEN LET r == pending_screenshot[2] IN
         /\ pending_screenshot' = TakePending(pending_screenshot)
         /\ slot' = [slot EXCEPT ![r] =
                        OneshotValue(r, CaptureResult(outcome, pending_screenshot[1]))]
         /\ slotLog' = [slotLog EXCEPT ![r] = Append(@, "redraw")]
         /\ tx' = [tx EXCEPT ![r] = "used"]
    ELSE /\ pending_screenshot' = TakePending(pending_screenshot)
         /\ UNCHANGED <<slot, slotLog, tx>>

\* The request the capture step of this Redraw serves (0: none).
Captured == IF HasPending(pending_screenshot) THEN pending_screenshot[2] ELSE 0

\* WinitEvent::Redraw, backend.bind() is Err: unwrap panics.
RedrawBindFail ==
    /\ LoopRunning
    /\ frame' = [stage |-> "bind_failed", captured |-> 0]
    /\ redraw_requested' = FALSE
    /\ main_pc' = "panicked"
    /\ UNCHANGED <<nextReq, pc, kind, param, ret, queue, rx_chan, tx, slot, slotLog,
                   handled, spawned, pending_screenshot, stop,
                   server, closed, shot>>

\* Mutant: the capture step runs before render_output's result is looked at.
RedrawRenderFailAfterCapture ==
    /\ LoopRunning
    /\ \E outcome \in CaptureOutcomes : CaptureStep(outcome)
    /\ frame' = [stage |-> "render_failed", captured |-> Captured]
    /\ redraw_requested' = FALSE
    /\ main_pc' = "panicked"
    /\ UNCHANGED <<nextReq, pc, kind, param, ret, queue, rx_chan, handled, spawned, stop,
                   server, closed, shot>>

\* WinitEvent::Redraw, render_output is Err: unwrap panics.
RedrawRenderFail ==
    /\ LoopRunning
    /\ frame' = [stage |-> "render_failed", captured |-> 0]
    /\ redraw_requested' = FALSE
    /\ main_pc' = "panicked"
    /\ UNCHANGED <<nextReq, pc, kind, param, ret, queue, rx_chan, tx, slot, slotLog,
                   handled, spawned, pending_screenshot, stop,
                   server, closed, shot>>

\* WinitEvent::Redraw, rendered, capture step done, backend.submit is Err:
\* unwrap panics.
RedrawSubmitFail ==
    /\ LoopRunning
    /\ \E outcome \in CaptureOutcomes : CaptureStep(outcome)
    /\ frame' = [stage |-> "submit_failed", captured |-> Captured]
    /\ redraw_requested' = FALSE
    /\ main_pc' = "panicked"
    /\ UNCHANGED <<nextReq, pc, kind, param, ret, queue, rx_chan, handled, spawned, stop,
                   server, closed, shot>>

\* WinitEvent::Redraw, all of bind, render and submit Ok: the frame is
\* submitted, the windows get their frame callbacks, the next redraw is asked for.
RedrawOk ==
    /\ LoopRunning
    /\ \E outcome \in CaptureOutcomes : CaptureStep(outcome)
    /\ frame' = [stage |-> "submitted", captured |-> Captured]
    /\ redraw_requested' = TRUE
    /\ UNCHANGED <<nextReq, pc, kind, param, ret, queue, rx_chan, handled, spawned,
                   main_pc, stop,
                   server, closed, shot>>

\* WinitEvent::CloseRequested: state.loop_signal.stop().
CloseRequested ==
    /\ LoopRunning
    /\ ~stop
    /\ stop' = TRUE
    /\ UNCHANGED <<nextReq, pc, kind, param, ret, queue, rx_chan, tx, slot, slotLog,
                   handled, spawned, pending_screenshot, main_pc, frame, redraw_requested,
                   server, closed, shot>>

(***************************************************************************)
(* main after the loop: event_loop.run returns (or a handler's panic       *)
(* unwinds main), and main's locals are dropped in reverse order of        *)
(* declaration: _guard, rt, data, event_loop.                              *)
(***************************************************************************)

\* event_loop.run(..)? returns once the stop signal is seen.
RunReturns ==
    /\ LoopRunning
    /\ stop
    /\ main_pc' = "returned"
    /\ UNCHANGED <<nextReq, pc, kind, param, ret, queue, rx_chan, tx, slot, slotLog,
                   handled, spawned, pending_screenshot, stop, frame, redraw_requested,
                   server, closed, shot>>

\* `rt` is dropped: the runtime shuts down, every task that has not finished
\* is dropped at its await, and main waits until they all are.
DropRuntime ==
    /\ main_pc \in {"returned", "panicked"}
    /\ pc' = [r \in Req |-> IF pc[r] = "awaiting" THEN "cancelled" ELSE pc[r]]
    /\ server' = FALSE
    /\ main_pc' = "rt_dropped"
    /\ UNCHANGED <<nextReq, kind, param, ret, queue, rx_chan, tx, slot, slotLog,
                   handled, spawned, pending_screenshot, stop, frame, redraw_requested,
                   closed, shot>>

\* `data` is dropped: the compositor state, with pending_screenshot in it.
DropData ==
    /\ main_pc = "rt_dropped"
    /\ pending_screenshot' = None
    /\ tx' = [r \in Req |-> IF r \in Held(pending_screenshot) THEN "dropped" ELSE tx[r]]
    /\ main_pc' = "data_dropped"
    /\ UNCHANGED <<nextReq, pc, kind, param, ret, queue, rx_chan, slot, slotLog,
                   handled, spawned, stop, frame, redraw_requested,
                   server, closed, shot>>

\* `event_loop` is dropped: the channel source, and every message still queued.
DropEventLoop ==
    /\ main_pc = "data_dropped"
    /\ queue' = <<>>
    /\ rx_chan' = FALSE
    /\ tx' = [r \in Req |->
                IF \E i \in 1..Len(queue) : queue[i].response_tx = r
                THEN "dropped" ELSE tx[r]]
    /\ main_pc' = "exited"
    /\ UNCHANGED <<nextReq, pc, kind, param, ret, slot, slotLog, handled, spawned,
                   pending_screenshot, stop, frame, redraw_requested,
                   server, closed, shot>>

Next ==
    \/ CallLaunchApp
    \/ CallScreenshot
    \/ \E r \in Req : CallerWake(r)
    \/ \E r \in Req : CallerDrop(r)
    \/ ServerExit
    \/ ChannelClosed
    \/ DispatchLaunchApp
    \/ DispatchScreenshot
    \/ RedrawBindFail
    \/ RedrawRenderFail
    \/ RedrawSubmitFail
    \/ RedrawOk
    \/ CloseRequested
    \/ RunReturns
    \/ DropRuntime
    \/ DropData
    \/ DropEventLoop

Spec == Init /\ [][Next]_vars

\* One WinitEvent::Redraw, whatever its outcome.
Redraw == RedrawBindFail \/ RedrawRenderFail \/ RedrawSubmitFail \/ RedrawOk

\* One channel::Event::Msg, whatever the command.
Dispatch == DispatchLaunchApp \/ DispatchScreenshot

\* The scheduling the code relies on: while event_loop.run is dispatching, a
\* queued command is handed to the handler and redraw ticks keep coming (each
\* submitted frame ends with request_redraw); a settled oneshot wakes its
\* task while the runtime lives; main's statements after the loop run in turn.
LiveSpec ==
    /\ Spec
    /\ WF_vars(Redraw)
    /\ WF_vars(Dispatch)
    /\ \A r \in Req : WF_vars(CallerWake(r))
    /\ WF_vars(RunReturns)
    /\ WF_vars(DropRuntime)
    /\ WF_vars(DropData)
    /\ WF_vars(DropEventLoop)

(***************************************************************************)
(* Properties.                                                             *)
(***************************************************************************)

\* The request's command is still queued in the command channel.
InQueue(r) == \E i \in 1..Len(queue) : queue[i].response_tx = r

\* The request's command was sent.
Sent(r) == r < nextReq

\* The response_tx of the queued messages, front first.
QueuedTx == [i \in 1..Len(queue) |-> queue[i].response_tx]

\* The requests a oneshot value was delivered for.
Replied == {r \in Req : slot[r] # NoValue}

\* The LaunchApp requests.
Launches == {r \in Req : kind[r] = "LaunchApp"}

\* C1: for any number of LaunchApp requests sent concurrently and any
\* interleaving of the sends with the dispatch steps, every request whose
\* command the loop has taken holds exactly one reply in its own slot, the
\* reply is the result of the spawn of that request's own command, no two
\* requests share a spawn, no spawn is made twice, a request still queued has
\* no reply yet, and the caller that resumes returns its own spawn's result.
C1_State ==
    /\ \A r \in Launches :
         /\ Len(slotLog[r]) <= 1
         /\ InQueue(r) => (slot[r] = NoValue /\ slotLog[r] = <<>> /\ tx[r] = "live")
         /\ (~InQueue(r) /\ rx_chan) =>
              (Len(slotLog[r]) = 1 /\ (r \in Replied \/ pc[r] = "cancelled"))
         /\ r \in Replied =>
              /\ slot[r].id \in 1..Len(spawned)
              /\ spawned[slot[r].id] = [command |-> param[r], ok |-> slot[r].ok]
              /\ slot[r] = SpawnResult(slot[r].ok, slot[r].id)
         /\ pc[r] = "returned" => ret[r] = LaunchReturn(param[r], slot[r])
    /\ \A r1, r2 \in Launches \cap Replied : r1 # r2 => slot[r1].id # slot[r2].id
    /\ Len(spawned) = Cardinality({r \in Launches : slotLog[r] # <<>>})

\* C1 (continued): and while the loop keeps dispatching, a queued launch is
\* eventually answered.
C1_LaunchRepliesOneToOne ==
    /\ []C1_State
    /\ \A r \in Req :
         (kind[r] = "LaunchApp" /\ InQueue(r)) ~>
             (r \in Replied \/ pc[r] = "cancelled" \/ ~LoopRunning)

\* Two launches of different commands, queued together, one spawned and one
\* not, each answered with its own result and each caller returned.
C1_Witness ==
    /\ kind[1] = "LaunchApp" /\ kind[2] = "LaunchApp"
    /\ param[1] # param[2]
    /\ handled = <<1, 2>>
    /\ slot[1].ok /\ slot[2] # NoValue /\ ~slot[2].ok
    /\ pc[1] = "returned" /\ pc[2] = "returned"
    /\ ret[1].arg = param[1] /\ ret[2].arg = param[2]

\* What a caller returns when its sender was dropped without a value.
DroppedChannel == InternalError("Event loop dropped response channel")

\* C2, the dispatch step: a Screenshot command dequeued while request r is
\* still pending takes r's place, and r's sender is dropped unwritten.
C2_ReplaceStep ==
    \A r \in Req :
        (DispatchScreenshot /\ Held(pending_screenshot) = {r}) =>
            /\ Held(pending_screenshot') = {Recv(queue).response_tx}
            /\ tx'[r] = "dropped"
            /\ slot'[r] = NoValue /\ slotLog'[r] = <<>>

\* C2, afterwards: a dropped sender stays dropped, its slot is never written,
\* and the only thing its caller can return is the dropped-channel error.
C2_DroppedState ==
    \A r \in Req :
        tx[r] = "dropped" =>
            /\ slot[r] = NoValue /\ slotLog[r] = <<>>
            /\ pc[r] = "returned" => ret[r] = DroppedChannel

\* C2: when two Screenshot commands are dequeued with no frame reaching the
\* capture step between them, only the later one stays pending (and is the
\* only one a frame can answer); the earlier one's slot is never written, its
\* caller gets the dropped-channel error and no reply, and it does not wait
\* for ever.
C2_LaterCaptureWins ==
    /\ [][C2_ReplaceStep]_vars
    /\ []C2_DroppedState
    /\ [][\A r \in Req : tx[r] = "dropped" => tx'[r] = "dropped"]_vars
    /\ \A r \in Req : (tx[r] = "dropped" /\ pc[r] = "awaiting") ~> (pc[r] # "awaiting")

\* Two captures, the first replaced by the second before any frame: the first
\* caller has returned the dropped-channel error, the second was answered by
\* a frame.
C2_Witness ==
    /\ kind[1] = "Screenshot" /\ kind[2] = "Screenshot"
    /\ tx[1] = "dropped" /\ slot[1] = NoValue
    /\ pc[1] = "returned" /\ ret[1] = DroppedChannel
    /\ frame.captured = 2 /\ slot[2].ok /\ slotLog[2] = <<"redraw">>
    /\ pc[2] = "returned" /\ ret[2].how = "success"

\* The request held in pending_screenshot is r.
Pending(r) == Held(pending_screenshot) = {r}

\* The last frame got past rendering (bind and render_output were Ok).
Rendered(f) == f.stage \in {"submitted", "submit_failed"}

\* C3, safety: a pending capture has no reply and keeps its sender, and it
\* stops being pending only by being answered in the capture step of a frame
\* that rendered, or by its sender being dropped (replaced, or torn down).
C3_PendingStep ==
    \A r \in Req :
        Pending(r) =>
            /\ slot[r] = NoValue /\ tx[r] = "live"
            /\ ~Pending(r)' =>
                 \/ /\ Rendered(frame') /\ frame'.captured = r
                    /\ slotLog'[r] = <<"redraw">> /\ tx'[r] = "used"
                 \/ tx'[r] = "dropped"

\* C3: a capture stored before a frame stays pending and unanswered until a
\* frame renders, and while the loop keeps running (redraw ticks keep
\* coming) it is eventually answered by a frame, or replaced.
C3_PendingCaptureResolves ==
    /\ [][C3_PendingStep]_vars
    /\ \A r \in Req :
         Pending(r) ~> (slotLog[r] = <<"redraw">> \/ tx[r] = "dropped" \/ ~LoopRunning)

\* A capture that was pending before the first frame, answered by that frame
\* while the loop keeps running.
C3_Witness ==
    /\ kind[1] = "Screenshot"
    /\ frame = [stage |-> "submitted", captured |-> 1]
    /\ slotLog[1] = <<"redraw">> /\ slot[1] # NoValue
    /\ pending_screenshot = None
    /\ LoopRunning /\ redraw_requested

\* C4: whenever a frame reaches the capture step with a request pending, that
\* request's slot gets take_screenshot's result for its own filename,
\* whether Ok or Err, and pending_screenshot is None afterwards (the result
\* is sent all the same, and lost, when the caller has stopped waiting).
C4_CaptureStepResolves ==
    [][\A r \in Req :
         ((RedrawOk \/ RedrawSubmitFail) /\ Pending(r)) =>
            /\ pending_screenshot' = None
            /\ \E o \in CaptureOutcomes :
                 slot'[r] = IF pc[r] = "awaiting"
                            THEN CaptureResult(o, pending_screenshot[1]) ELSE NoValue
            /\ slotLog'[r] = <<"redraw">>
            /\ tx'[r] = "used"]_vars

\* A frame whose capture failed: the error is in the slot, nothing is pending.
C4_Witness ==
    \E r \in Req :
        /\ Rendered(frame) /\ frame.captured = r
        /\ slot[r] # NoValue /\ ~slot[r].ok
        /\ pending_screenshot = None

\* C5 as stated: a Redraw whose bind, render or submit fails leaves the loop
\* running, and a request that was pending and not served stays pending for
\* the next frame.
C5_FrameFailureAbortsFrameOnly ==
    [][(RedrawBindFail \/ RedrawRenderFail \/ RedrawSubmitFail) =>
         /\ LoopRunning'
         /\ (frame'.captured = 0 => pending_screenshot' = pending_screenshot)]_vars

\* C6 as stated: once the loop was stopped by a close request and main has
\* torn everything down, every request that was sent and never answered has
\* had its caller return the dropped-channel error.
C6_TeardownSeenAsDroppedChannel ==
    \A r \in Req :
        (main_pc = "exited" /\ stop /\ frame.stage \in {"none", "submitted"}
            /\ Sent(r) /\ slotLog[r] = <<>>) =>
            (pc[r] = "returned" /\ ret[r] = DroppedChannel)

\* The handler a reply to a request of this kind comes from.
WriterOf(r) == IF kind[r] = "LaunchApp" THEN "dispatch" ELSE "redraw"

\* C7, in every state: a slot was sent to at most once, by the dispatch step
\* for a launch and by the redraw step for a capture, and holds a value only
\* if one of them sent it.
C7_State ==
    \A r \in Req :
        /\ Len(slotLog[r]) <= 1
        /\ slot[r] # NoValue => slotLog[r] # <<>>
        /\ slotLog[r] # <<>> => (slotLog[r] = <<WriterOf(r)>> /\ tx[r] = "used")

\* C7, in every step: a slot changes only in a step of the render loop;
\* no step of a tool handler writes one.
C7_Step ==
    (slot' # slot \/ slotLog' # slotLog) => (DispatchLaunchApp \/ RedrawOk \/ RedrawSubmitFail)

\* C7: each response slot is written at most once, and only by the render loop.
C7_SlotWrittenOnceByLoop == []C7_State /\ [][C7_Step]_vars

\* A launch answered by the dispatch step and a capture answered by a frame.
C7_Witness ==
    \E r1, r2 \in Req :
        /\ kind[r1] = "LaunchApp" /\ slotLog[r1] = <<"dispatch">> /\ slot[r1] # NoValue
        /\ kind[r2] = "Screenshot" /\ slotLog[r2] = <<"redraw">> /\ slot[r2] # NoValue

\* The requests sent so far, in send order.
SentOrder == [i \in 1..(nextReq - 1) |-> i]

\* C9: the loop takes the commands in the order they were sent, whatever
\* their kind (what it has handled, followed by what is still queued, is the
\* send order), and every launch it has taken was answered in that same
\* step, before any later command was taken.
C9_FifoDispatch ==
    /\ rx_chan => handled \o QueuedTx = SentOrder
    /\ Len(handled) <= nextReq - 1
    /\ \A i \in 1..Len(handled) :
         /\ handled[i] = i
         /\ kind[i] = "LaunchApp" => slotLog[i] = <<"dispatch">>

\* A capture sent first and a launch sent second, taken in that order; the
\* launch is answered while the capture still waits for a frame.
C9_Witness ==
    /\ kind[1] = "Screenshot" /\ kind[2] = "LaunchApp"
    /\ handled = <<1, 2>>
    /\ Pending(1) /\ slot[1] = NoValue
    /\ slot[2] # NoValue

\* The texts take_screenshot's error arms produce.
CaptureErrors ==
    {"Failed to copy framebuffer", "Failed to map texture",
     "Failed to create image from pixel data", "Failed to save screenshot"}

\* C10 as stated: in a frame whose capture fails, the error text is the
\* reply, the loop keeps running, the frame is submitted and the next redraw
\* is requested.
C10_CaptureFailureKeepsLoopAlive ==
    [][\A r \in Req :
         ((RedrawOk \/ RedrawSubmitFail) /\ Pending(r) /\ ~slot'[r].ok) =>
            /\ slot'[r].text \in CaptureErrors
            /\ LoopRunning'
            /\ frame'.stage = "submitted"
            /\ redraw_requested']_vars

\* Why the failed-send branch of Call is never taken: a handler runs only
\* while the runtime lives, and main drops the runtime before the event loop
\* that owns command_rx.  No handler ever returns the failed-send error.
SendNeverFails ==
    /\ RuntimeAlive => rx_chan
    /\ \A r \in Req : ret[r] # InternalError("Failed to send command")

\* After main's teardown no handler is left waiting on its slot.
NoCallerLeftWaiting == main_pc = "exited" => \A r \in Req : pc[r] # "awaiting"

(***************************************************************************)
(* C11: the channel reports closure                                        *)
(***************************************************************************)

\* The state of the render domain the Closed arm could touch.
RenderState == <<pending_screenshot, tx, slot, slotLog, queue, handled, spawned,
                 main_pc, stop, frame, redraw_requested>>

\* The step that delivers channel::Event::Closed changes nothing of it.
C11_ClosedStep == (~closed /\ closed') => UNCHANGED RenderState

\* C11: when every producer is gone and the channel reports closure the loop
\* keeps running: the closure step changes no render-domain state (the
\* pending capture stays as it was, the loop is neither stopped nor ended),
\* and a capture stored before the closure is still served by a frame
\* rendered after it, while the loop runs.
C11_ClosureKeepsLoopRunning ==
    /\ [][C11_ClosedStep]_vars
    /\ \A r \in Req :
         (closed /\ Pending(r)) ~> (slotLog[r] = <<"redraw">> \/ ~LoopRunning)

\* Closure was reported while a capture, stored before it, is still pending
\* and the loop runs on.
C11_Witness ==
    \E r \in Req : closed /\ Pending(r) /\ LoopRunning /\ ~stop /\ slotLog[r] = <<>>

(***************************************************************************)
(* C12: the caller stopped waiting before the loop writes                  *)
(***************************************************************************)

\* Requests whose reply was written after the caller had dropped response_rx.
Discarded == {r \in Req : slotLog[r] # <<>> /\ slot[r] = NoValue}

\* The write of a reply to a caller that is gone.
C12_DiscardStep ==
    \A r \in Req :
        (pc[r] = "cancelled" /\ slotLog[r] = <<>> /\ slotLog'[r] # <<>>) =>
            /\ slot'[r] = NoValue /\ tx'[r] = "used" /\ Len(slotLog'[r]) = 1
            /\ \A q \in Req \ {r} :
                 slot'[q] = slot[q] /\ slotLog'[q] = slotLog[q] /\ tx'[q] = tx[q]
            /\ pc' = pc /\ ret' = ret
            /\ kind[r] = "LaunchApp" =>
                 /\ queue' = Tail(queue) /\ main_pc' = main_pc /\ stop' = stop
                 /\ pending_screenshot' = pending_screenshot
            /\ kind[r] = "Screenshot" =>
                 /\ Pending(r) /\ pending_screenshot' = None
                 /\ Rendered(frame') /\ frame'.captured = r
                 /\ frame'.stage = "submitted" => (main_pc' = main_pc /\ redraw_requested')

\* C12: when the caller dropped its reading end before the loop writes, the
\* write is discarded and raises nothing: the slot of that request is used
\* up once, no value reaches anybody, no other request's slot, sender or
\* caller changes, and the loop goes on as after a delivered write (launch:
\* the command leaves the queue and the loop state is as before; capture:
\* the pending capture is cleared and the frame goes on to its submit).
C12_DiscardedWriteIsSilent == [][C12_DiscardStep]_vars

\* A launch reply and a capture reply were both written to callers that had
\* stopped waiting, and the loop runs on.
C12_Witness ==
    \E r, q \in Discarded :
        /\ kind[r] = "LaunchApp" /\ kind[q] = "Screenshot"
        /\ LoopRunning /\ frame.stage = "submitted" /\ frame.captured = q

(***************************************************************************)
(* take_screenshot (winit.rs), one run, step by step                       *)
(***************************************************************************)

\* Largest output size (size.w, size.h) the runs draw.
MaxW == 3

MaxH == 3

\* How far the mapped buffer's length may be off width * height * 4.
MaxSlack == 1

\* Fourcc::Abgr8888 / image::Rgba<u8>: bytes of one pixel.
BytesPerPixel == 4

\* Base of the two limbs a u32 is kept in (TLC's integers are 32 bits wide).
Two16 == 65536

\* The byte the device left at each position of the mapped buffer: every
\* position of the model's buffers holds a value of its own, so a pixel that
\* lands in the wrong place, or is changed, shows.
DeviceBuffer(len) == [k \in 1..len |-> k % 256]

\* space.elements().next() and space.element_geometry(window): no window, a
\* window without geometry, or a window with geo.loc (x, y), geo.size (w, h).
Window(elem, x, y, w, h) == [elem |-> elem, x |-> x, y |-> y, w |-> w, h |-> h]

Windows ==
    {Window("none", 0, 0, 0, 0), Window("nogeo", 0, 0, 0, 0)} \cup
    {Window("geo", x, y, w, h) :
        x \in -1..MaxW, y \in -1..MaxH, w \in -1..(MaxW + 1), h \in -1..(MaxH + 1)}

\* An ImageBuffer: dimensions and the container it was built on.
Image(w, h, data) == [w |-> w, h |-> h, data |-> data]

NoImage == Image(0, 0, <<>>)

\* What take_screenshot returns.
ShotOk(filename, w, h) ==
    [ok |-> TRUE, text |-> "Screenshot saved to", path |-> filename, w |-> w, h |-> h]

ShotErr(text) == [ok |-> FALSE, text |-> text, path |-> "", w |-> 0, h |-> 0]

NoFile == [written |-> FALSE, path |-> "", w |-> 0, h |-> 0, data |-> <<>>]

Max(a, b) == IF a >= b THEN a ELSE b

\* `v as u32` of an i32: v mod 2^32, as its high and low 16 bits.
AsU32(v) == [hi |-> (v \div Two16) % Two16, lo |-> v % Two16]

\* u32::min.
MinU32(a, b) == IF a.hi < b.hi \/ (a.hi = b.hi /\ a.lo <= b.lo) THEN a ELSE b

\* The value of a u32 below 2^31.
U32Value(a) == a.hi * Two16 + a.lo

\* u32::saturating_sub.
SaturatingSub(a, b) == IF b > a THEN 0 ELSE a - b

\* image::RgbaImage::from_raw: None when the container is too small for
\* width * height pixels; a larger container is taken as it is.
FromRaw(width, height, buf) ==
    IF width * height * BytesPerPixel <= Len(buf) THEN Image(width, height, buf) ELSE NoImage

\* Index (from 1) of byte c of pixel (i, j) in the container.
ByteIndex(img, i, j, c) == BytesPerPixel * (j * img.w + i) + c + 1

\* The rows y and y2 of the image exchanged, pixel by pixel.
SwapRows(img, y, y2) ==
    LET row(k) == ((k - 1) \div BytesPerPixel) \div img.w
        inImage(k) == k <= img.w * img.h * BytesPerPixel
        shift == (y2 - y) * img.w * BytesPerPixel
    IN  Image(img.w, img.h,
              [k \in 1..Len(img.data) |->
                 IF inImage(k) /\ row(k) = y THEN img.data[k + shift]
                 ELSE IF inImage(k) /\ row(k) = y2 THEN img.data[k - shift]
                 ELSE img.data[k]])

RECURSIVE FlipRows(_, _, _)
\* for y in from..upto: swap row y with row height - y - 1.
FlipRows(img, y, upto) ==
    IF y >= upto THEN img ELSE FlipRows(SwapRows(img, y, img.h - y - 1), y + 1, upto)

\* Mutant: the loop stops one row early.
FlipVerticalShort(img) == FlipRows(img, 0, (img.h - 1) \div 2)

\* image::imageops::flip_vertical_in_place: for y in 0..height / 2.
FlipVertical(img) == FlipRows(img, 0, img.h \div 2)

\* Mutant: the size is taken as it is.
CropSizeUnclamped(size, extent, origin) == Max(size, 0)

\* (geo.size.w as u32).min(width.saturating_sub(x))
CropSize(size, extent, origin) ==
    U32Value(MinU32(AsU32(size), AsU32(SaturatingSub(extent, origin))))

\* geo.loc.x.max(0) as u32
CropOrigin(loc) == Max(loc, 0)

\* The rectangle handed to crop_imm.
CropRect(geo, width, height) ==
    LET x == CropOrigin(geo.x)
        y == CropOrigin(geo.y)
    IN  [x |-> x, y |-> y,
         w |-> CropSize(geo.w, width, x), h |-> CropSize(geo.h, height, y)]

\* Mutant: the copy starts at the image's origin.
CropImmAtOrigin(img, x, y, w, h) ==
    Image(w, h, [k \in 1..(w * h * BytesPerPixel) |->
                    LET pix == (k - 1) \div BytesPerPixel
                    IN  img.data[ByteIndex(img, pix % w, pix \div w, (k - 1) % BytesPerPixel)]])

\* DynamicImage::crop_imm: the rectangle is clamped to the image once more,
\* then its pixels are copied into an image of their own.
CropImm(img, x, y, w, h) ==
    LET cx == IF x <= img.w THEN x ELSE img.w
        cy == IF y <= img.h THEN y ELSE img.h
        cw == IF w + cx > img.w THEN img.w - cx ELSE w
        ch == IF h + cy > img.h THEN img.h - cy ELSE h
    IN  Image(cw, ch,
              [k \in 1..(cw * ch * BytesPerPixel) |->
                 LET pix == (k - 1) \div BytesPerPixel
                 IN  img.data[ByteIndex(img, cx + (pix % cw), cy + (pix \div cw),
                                        (k - 1) % BytesPerPixel)]])

\* The image take_screenshot saves: the crop to the first window's geometry,
\* or the whole image.
Cropped(img, win) ==
    IF win.elem = "geo"
    THEN LET r == CropRect(win, img.w, img.h) IN CropImm(img, r.x, r.y, r.w, r.h)
    ELSE Image(img.w, img.h, SubSeq(img.data, 1, img.w * img.h * BytesPerPixel))

\* img.save(filename): the file holds the image's width * height pixels; the
\* encoder refuses an image without pixels, the write can fail.
Saved(img, filename, disk) ==
    IF disk = "ok" /\ img.w > 0 /\ img.h > 0
    THEN [written |-> TRUE, path |-> filename, w |-> img.w, h |-> img.h,
          data |-> SubSeq(img.data, 1, img.w * img.h * BytesPerPixel)]
    ELSE NoFile

Shot(stage, width, height, buf, img, win, file, result) ==
    [stage |-> stage, width |-> width, height |-> height, buf |-> buf, img |-> img,
     win |-> win, file |-> file, result |-> result]

NoWindow == Window("none", 0, 0, 0, 0)

NoResult == ShotErr("")

\* take_screenshot is entered with the output's size.
ShotInit ==
    /\ BridgeInit
    /\ \E width \in 1..MaxW, height \in 1..MaxH :
         shot = Shot("entered", width, height, <<>>, NoImage, NoWindow, NoFile, NoResult)

ShotFail(text) == [shot EXCEPT !.stage = "failed", !.result = ShotErr(text)]

\* renderer.copy_framebuffer(framebuffer, region, Fourcc::Abgr8888) ... ?
ShotCopyFramebuffer ==
    /\ shot.stage = "entered"
    /\ \/ shot' = [shot EXCEPT !.stage = "copied"]
       \/ shot' = ShotFail("Failed to copy framebuffer")
    /\ UNCHANGED bridgeVars

\* The lengths the mapped slice is drawn from.
MappedLengths(width, height) ==
    {n \in 0..(width * height * BytesPerPixel + MaxSlack) :
        n >= width * height * BytesPerPixel - MaxSlack}

\* renderer.map_texture(&mapping) ... ?
ShotMapTexture ==
    /\ shot.stage = "copied"
    /\ \/ \E len \in MappedLengths(shot.width, shot.height) :
            shot' = [shot EXCEPT !.stage = "mapped", !.buf = DeviceBuffer(len)]
       \/ shot' = ShotFail("Failed to map texture")
    /\ UNCHANGED bridgeVars

\* RgbaImage::from_raw(width, height, pixels.to_vec()).ok_or_else(..)?
ShotFromRaw ==
    /\ shot.stage = "mapped"
    /\ LET img == FromRaw(shot.width, shot.height, shot.buf) IN
         shot' = IF img = NoImage
                 THEN ShotFail("Failed to create image from pixel data")
                 ELSE [shot EXCEPT !.stage = "image", !.img = img]
    /\ UNCHANGED bridgeVars

\* image::imageops::flip_vertical_in_place(&mut img)
ShotFlip ==
    /\ shot.stage = "image"
    /\ shot' = [shot EXCEPT !.stage = "flipped", !.img = FlipVertical(shot.img)]
    /\ UNCHANGED bridgeVars

\* The crop to the first window of the space, if there is one.
ShotCrop ==
    /\ shot.stage = "flipped"
    /\ \E win \in Windows :
         shot' = [shot EXCEPT !.stage = "cropped", !.win = win,
                              !.img = Cropped(shot.img, win)]
    /\ UNCHANGED bridgeVars

\* img.save(filename) ... ?  and the Ok(format!(..)) that ends the function.
ShotSave ==
    /\ shot.stage = "cropped"
    /\ \E disk \in {"ok", "fail"} :
         LET file == Saved(shot.img, Arg(1), disk) IN
           shot' = IF file.written
                   THEN [shot EXCEPT !.stage = "saved", !.file = file,
                                     !.result = ShotOk(Arg(1), shot.img.w, shot.img.h)]
                   ELSE ShotFail("Failed to save screenshot")
    /\ UNCHANGED bridgeVars

ShotNext ==
    \/ ShotCopyFramebuffer
    \/ ShotMapTexture
    \/ ShotFromRaw
    \/ ShotFlip
    \/ ShotCrop
    \/ ShotSave

\* One run of take_screenshot over every size, buffer and window drawn.
ShotSpec == ShotInit /\ [][ShotNext]_vars

(***************************************************************************)
(* C13: a window that reaches past the frame's edge                        *)
(***************************************************************************)

Min(a, b) == IF a <= b THEN a ELSE b

\* The run has taken its window and cropped.
AfterCrop == shot.stage \in {"cropped", "saved"} \/
             (shot.stage = "failed" /\ shot.result.text = "Failed to save screenshot")

\* The window has an extent, starts inside the frame and reaches past its
\* right or its bottom edge.
PastEdge(win, width, height) ==
    /\ win.elem = "geo" /\ win.w >= 1 /\ win.h >= 1
    /\ 0 <= win.x /\ win.x < width /\ 0 <= win.y /\ win.y < height
    /\ (win.x + win.w > width \/ win.y + win.h > height)

\* C13: for a window with non-negative origin inside the W x H frame whose
\* right or bottom edge lies past the frame, the crop rectangle is the
\* origin with the width cut to W - x and the height to H - y; the image is
\* that rectangle, which lies inside the frame, and the capture does not
\* fail on it: saving is refused only by the file system.
C13_CropClampedAtEdge ==
    (AfterCrop /\ PastEdge(shot.win, shot.width, shot.height)) =>
        LET win == shot.win
            rect == CropRect(win, shot.width, shot.height)
        IN  /\ rect.x = win.x /\ rect.y = win.y
            /\ rect.w = Min(win.w, shot.width - win.x)
            /\ rect.h = Min(win.h, shot.height - win.y)
            /\ shot.img.w = rect.w /\ shot.img.h = rect.h
            /\ rect.x + shot.img.w <= shot.width /\ rect.y + shot.img.h <= shot.height
            /\ Saved(shot.img, Arg(1), "ok").written
            /\ shot.stage = "saved" =>
                 (shot.result = ShotOk(Arg(1), rect.w, rect.h)
                    /\ shot.file.w = rect.w /\ shot.file.h = rect.h)

\* A window one column from the right edge, two wide, saved one wide.
C13_Witness ==
    /\ shot.stage = "saved" /\ PastEdge(shot.win, shot.width, shot.height)
    /\ shot.win.x = shot.width - 1 /\ shot.win.w = 2 /\ shot.file.w = 1
    /\ shot.win.y + shot.win.h > shot.height

(***************************************************************************)
(* C14: the captured region for every geometry                             *)
(***************************************************************************)

\* The part of [loc, loc + size) that lies in [0, extent): its start and length.
InsideStart(loc, size, extent) == Max(loc, 0)

InsideLength(loc, size, extent) == Max(Min(loc + size, extent) - Max(loc, 0), 0)

\* C14: with a target window the captured region is exactly the part of the
\* window's rectangle (x, y, w, h) that lies inside the frame, for every
\* origin and size drawn (negative origin, origin at or past the extent, zero
\* and negative sizes), and its width and height are never negative.
C14_RegionIsWindowInsideFrame ==
    (AfterCrop /\ shot.win.elem = "geo") =>
        LET win == shot.win
            rect == CropRect(win, shot.width, shot.height)
        IN  /\ shot.img.w >= 0 /\ shot.img.h >= 0
            /\ shot.img.w = InsideLength(win.x, win.w, shot.width)
            /\ shot.img.h = InsideLength(win.y, win.h, shot.height)
            /\ (shot.img.w > 0 /\ shot.img.h > 0) =>
                 /\ rect.x = InsideStart(win.x, win.w, shot.width)
                 /\ rect.y = InsideStart(win.y, win.h, shot.height)

\* What the crop does keep for every geometry: a region inside the frame.
CropStaysInsideFrame ==
    (AfterCrop /\ shot.win.elem = "geo") =>
        LET rect == CropRect(shot.win, shot.width, shot.height)
        IN  /\ shot.img.w >= 0 /\ shot.img.h >= 0
            /\ Min(rect.x, shot.width) + shot.img.w <= shot.width
            /\ Min(rect.y, shot.height) + shot.img.h <= shot.height

(***************************************************************************)
(* C15: a window fully inside the frame                                    *)
(***************************************************************************)

\* Byte c of pixel (i, j) of the vertically flipped frame: the device's
\* pixel (i, height - 1 - j), row-major in the mapped buffer.
FlippedFrameByte(buf, width, height, i, j, c) ==
    buf[BytesPerPixel * ((height - 1 - j) * width + i) + c + 1]

\* Byte c of pixel (i, j) of the saved file.
FileByte(file, i, j, c) == file.data[BytesPerPixel * (j * file.w + i) + c + 1]

\* The window has an extent and lies wholly inside the frame.
FullyInside(win, width, height) ==
    /\ win.elem = "geo" /\ win.w >= 1 /\ win.h >= 1
    /\ 0 <= win.x /\ win.x + win.w <= width
    /\ 0 <= win.y /\ win.y + win.h <= height

\* C15: for a window (x, y, w, h) with extent that lies fully inside the
\* frame, the saved image is exactly w wide and h high, its pixel (i, j) is
\* pixel (x + i, y + j) of the vertically flipped frame, and the reply names
\* the destination path and the dimensions w x h; nothing but the file
\* system refuses the save.
C15_CropOfWindowInside ==
    (AfterCrop /\ FullyInside(shot.win, shot.width, shot.height)) =>
        LET win == shot.win IN
        /\ Saved(shot.img, Arg(1), "ok").written
        /\ shot.stage = "saved" =>
             /\ shot.file.path = Arg(1) /\ shot.file.w = win.w /\ shot.file.h = win.h
             /\ Len(shot.file.data) = win.w * win.h * BytesPerPixel
             /\ \A i \in 0..(win.w - 1), j \in 0..(win.h - 1), c \in 0..(BytesPerPixel - 1) :
                  FileByte(shot.file, i, j, c) =
                    FlippedFrameByte(shot.buf, shot.width, shot.height,
                                     win.x + i, win.y + j, c)
             /\ shot.result = ShotOk(Arg(1), win.w, win.h)

\* A window away from every edge of the frame, saved.
C15_Witness ==
    /\ shot.stage = "saved" /\ FullyInside(shot.win, shot.width, shot.height)
    /\ shot.win.x >= 1 /\ shot.win.y >= 1
    /\ shot.win.x + shot.win.w < shot.width /\ shot.win.y + shot.win.h < shot.height

(***************************************************************************)
(* C16: no window to crop to                                               *)
(***************************************************************************)

\* Row r of a width-wide image kept row-major in data.
Row(data, width, r) ==
    SubSeq(data, r * width * BytesPerPixel + 1, (r + 1) * width * BytesPerPixel)

\* C16: without a visible window, or without a geometry for the first one,
\* the saved image has the frame's dimensions W x H and is the vertical flip
\* of the device buffer: its row r is the buffer's row H - 1 - r, for every
\* height drawn (1 and 2 among them), and the reply reports W x H.
C16_FullFrameFlipped ==
    (shot.stage = "saved" /\ shot.win.elem \in {"none", "nogeo"}) =>
        /\ shot.file.w = shot.width /\ shot.file.h = shot.height
        /\ Len(shot.file.data) = shot.width * shot.height * BytesPerPixel
        /\ \A r \in 0..(shot.height - 1) :
             Row(shot.file.data, shot.width, r) =
               Row(shot.buf, shot.width, shot.height - 1 - r)
        /\ shot.result = ShotOk(Arg(1), shot.width, shot.height)

\* A frame two rows high, saved whole because the window has no geometry.
C16_Witness ==
    /\ shot.stage = "saved" /\ shot.win.elem = "nogeo"
    /\ shot.height = 2 /\ shot.width = MaxW
    /\ Row(shot.file.data, shot.width, 0) # Row(shot.buf, shot.width, 0)

(***************************************************************************)
(* C17: a mapped buffer of the wrong length                                *)
(***************************************************************************)

\* from_raw has been called on the mapped buffer.
AfterFromRaw ==
    \/ shot.stage \in {"image", "flipped", "cropped", "saved"}
    \/ /\ shot.stage = "failed"
       /\ shot.result.text \notin {"Failed to copy framebuffer", "Failed to map texture"}

\* The length the image's dimensions ask for.
ImageLength == shot.width * shot.height * BytesPerPixel

BadBufferReply == ShotErr("Failed to create image from pixel data")

\* C17: when the mapped buffer's length differs from width * height * 4,
\* shorter or longer, image construction fails: the run ends with the
\* image-construction error, no image is made, cropped or written, and the
\* buffer is not cut or padded to fit.
C17_WrongLengthRefused ==
    (AfterFromRaw /\ Len(shot.buf) # ImageLength) =>
        /\ shot.stage = "failed" /\ shot.result = BadBufferReply
        /\ shot.img = NoImage /\ ~shot.file.written

\* What the code does keep: a buffer that is too short is refused.
ShortBufferRefused ==
    (AfterFromRaw /\ Len(shot.buf) < ImageLength) =>
        /\ shot.stage = "failed" /\ shot.result = BadBufferReply
        /\ shot.img = NoImage /\ ~shot.file.written

(***************************************************************************)
(* C18: a launch is answered where it is dequeued                          *)
(***************************************************************************)

\* The step that takes a LaunchApp off the queue.
C18_DequeueStep ==
    \A r \in Req :
        (kind[r] = "LaunchApp" /\ InQueue(r) /\ ~InQueue(r)' /\ rx_chan') =>
            /\ slotLog'[r] = <<"dispatch">> /\ tx'[r] = "used"
            /\ pc[r] = "awaiting" => slot'[r] # NoValue
            /\ pending_screenshot' = pending_screenshot
            /\ \A q \in Req : Pending(q) => (Pending(q)' /\ slotLog'[q] = <<>>)

\* C18: a LaunchApp is answered in the step that dequeues it, with or
\* without a pending capture: that step leaves pending_screenshot as it was,
\* so a launch dequeued while a capture is pending has its reply while the
\* capture is still unanswered; no launch the loop has taken is left
\* unanswered.
C18_LaunchResolvedAtDequeue ==
    /\ [][C18_DequeueStep]_vars
    /\ [](\A r \in Req :
            (kind[r] = "LaunchApp" /\ ~InQueue(r) /\ rx_chan) => slotLog[r] = <<"dispatch">>)

\* A launch sent after a capture was dequeued and answered while that
\* capture is still pending.
C18_Witness ==
    \E q, r \in Req :
        /\ q < r /\ Pending(q) /\ slotLog[q] = <<>>
        /\ kind[r] = "LaunchApp" /\ slotLog[r] = <<"dispatch">> /\ slot[r] # NoValue

\* The claim as stated: a launch enqueued behind a capture that is still
\* pending is answered before that capture, i.e. no frame answers a capture
\* while such a launch waits in the queue.
C18_LaunchAnsweredBeforePendingCapture ==
    [][\A q, r \in Req :
         (Pending(q) /\ kind[r] = "LaunchApp" /\ InQueue(r)) => slotLog'[q] = <<>>]_vars

(***************************************************************************)
(* C19: where the capture step sits in a frame                             *)
(***************************************************************************)

\* The captures answered by this step's frame.
AnsweredByFrame == {r \in Req : slotLog'[r] # slotLog[r] /\ slotLog'[r] = <<"redraw">>}

C19_FrameStep ==
    /\ \A r \in AnsweredByFrame :
         /\ Redraw /\ Pending(r)
         /\ Rendered(frame') /\ frame'.captured = r
         /\ ~Pending(r)'
    /\ Cardinality(AnsweredByFrame) <= 1
    /\ Redraw =>
         /\ ~Rendered(frame') =>
              (slot' = slot /\ slotLog' = slotLog /\ tx' = tx
                 /\ pending_screenshot' = pending_screenshot /\ frame'.captured = 0)
         /\ Rendered(frame') =>
              (pending_screenshot' = None /\ frame'.captured = Captured)
         /\ frame'.stage = "submitted" <=> main_pc' = "run"

\* C19: the capture step runs only in a frame whose bind and render
\* succeeded, before that frame's submit (it has run even when the submit
\* then fails) and for at most one capture a frame; a frame whose render
\* failed answers nothing and keeps the pending capture; so every capture is
\* answered from a frame rendered after its command was dequeued (it was
\* already pending when that frame began).
C19_CaptureBetweenRenderAndSubmit == [][C19_FrameStep]_vars

\* A frame rendered, answered its capture, and failed at submit.
C19_Witness ==
    \E r \in Req :
        /\ frame.stage = "submit_failed" /\ frame.captured = r
        /\ slotLog[r] = <<"redraw">> /\ pending_screenshot = None

(***************************************************************************)
(* C20: where a command is                                                 *)
(***************************************************************************)

\* How often the command of request r is in the channel.
TimesQueued(r) == Cardinality({i \in 1..Len(queue) : queue[i].response_tx = r})

\* The places the command of request r (its response_tx) is in.
Places(r) ==
    (IF InQueue(r) THEN {"queued"} ELSE {}) \cup
    (IF Pending(r) THEN {"pending"} ELSE {}) \cup
    (IF slotLog[r] # <<>> THEN {"replied"} ELSE {}) \cup
    (IF tx[r] = "dropped" THEN {"dropped"} ELSE {})

\* C20: every command that was sent is in exactly one place: queued in the
\* channel (once), held as the pending capture, replied (its slot written
\* once), or dropped unwritten; a command not yet sent is nowhere; at most
\* one capture is pending; the sender is live exactly while the command is
\* queued or pending and used exactly when the slot was written.
C20_CommandInOnePlace ==
    /\ \A r \in Req :
         /\ Sent(r) => Cardinality(Places(r)) = 1
         /\ ~Sent(r) => (Places(r) = {} /\ tx[r] = "none")
         /\ TimesQueued(r) <= 1
         /\ Len(slotLog[r]) <= 1
         /\ tx[r] = "live" <=> (InQueue(r) \/ Pending(r))
         /\ tx[r] = "used" <=> slotLog[r] # <<>>
         /\ tx[r] = "dropped" => slot[r] = NoValue
    /\ Cardinality({r \in Req : Pending(r)}) <= 1
    /\ Cardinality(Held(pending_screenshot)) <= 1

\* One capture answered by a frame while a later one is the pending capture.
C20_Witness ==
    \E q, r \in Req :
        /\ q # r /\ Places(q) = {"replied"} /\ kind[q] = "Screenshot"
        /\ Places(r) = {"pending"} /\ LoopRunning

====
